---- MODULE Spec2Model ----
(***************************************************************************)
(* A model of LineClearEngine (src/line_clear_engine.py): the playfield    *)
(* grid, the current piece, the legality check, the move / hard-drop       *)
(* commands, the line-clear scan, the generation and completion phases,    *)
(* the game options and the save files; and of the part of the application *)
(* (src/main.py) that drives it: the keyboard map, the run loop, load and  *)
(* pause. Hold and pause, which the application calls and this engine does *)
(* not have, follow section 4.4 of the specification.                      *)
(*                                                                         *)
(* Python values are modelled by what the interpreter does with them:      *)
(*   - a grid cell is PyInt(n) (the int n) or PyStr(n) (the one-character   *)
(*     str whose text is the digit n); `x in range(1, 8)` is true of the   *)
(*     ints 1..7 only, never of a str;                                     *)
(*   - list indexing follows Python: an index i < 0 reads position         *)
(*     i + len, anything outside -len..len-1 raises IndexError;            *)
(*   - an operation that raises leaves the exception's name in err and     *)
(*     keeps every assignment made before the raise.                       *)
(***************************************************************************)
EXTENDS Integers, Sequences, FiniteSets, TLC

VARIABLES
    grid,           \* self.grid: NoneGrid, or 22 rows (row 0 first) of 10 cells
    current_piece,  \* self.current_piece
    next_queue,     \* self.next_queue: NoneQueue or a list of kinds
    hold_queue,     \* self.hold_queue: PyNone or a str
    stats,          \* self.stats
    game_options,   \* self._game_options
    bag,            \* self._bag
    game_running,   \* self.game_running
    game_paused,    \* self.game_paused
    hold_used,      \* whether the piece in play came out of a Hold
    saved,          \* the file save_game wrote last
    leaderboard,    \* the file self._leaderboard names
    current_grid,   \* Matrix.current_grid: the grid drawn last, top row first
    matrix,         \* Matrix.matrix: the fill of each canvas rectangle
    op,             \* the last operation called and its arguments
    ret,            \* what it returned: "True", "False", "None" or a list
    err,            \* "ok", or the name of the exception it raised
    calls           \* how many operations were called so far

\* what the Matrix frame holds
screen == <<current_grid, matrix>>

\* the flags of a game: running, paused, and Hold already used
flags == <<game_running, game_paused, hold_used>>

vars == <<grid, current_piece, next_queue, hold_queue, stats, game_options,
          bag, game_running, game_paused, hold_used, saved, leaderboard,
          current_grid, matrix, op, ret, err, calls>>

\* ------------------------------------------------------------------ values

GridWidth == 10
GridHeight == 22

Kinds == {"O", "I", "T", "L", "J", "S", "Z"}

PyInt(n) == [ty |-> "int", v |-> n]
PyStr(n) == [ty |-> "str", v |-> n]

\* a test that takes the ghost numbers 11..17 for kinds as well
InRange1To18(x) == x.ty = "int" /\ x.v \in 1..17

\* `x in range(1, 8)`
InRange1To8(x) == x.ty = "int" /\ x.v \in 1..7

\* None, and the str with the given text, where a variable holds either
PyNone == [ty |-> "NoneType", v |-> "None"]
Str(text) == [ty |-> "str", v |-> text]

NoneGrid == <<>>
NoneQueue == <<"None">>

\* _grid_piece_map: every kind maps to a str, not to an int
KindNumber(type) ==
    CASE type = "O" -> 1 [] type = "I" -> 2 [] type = "T" -> 3
      [] type = "L" -> 4 [] type = "J" -> 5 [] type = "S" -> 6
      [] type = "Z" -> 7

GridPieceMap(type) == PyStr(KindNumber(type))

EmptyRow == [i \in 1..GridWidth |-> PyInt(0)]

\* _create_grid's value
EmptyGrid == [r \in 1..GridHeight |-> EmptyRow]

Blocks(piece) == <<piece.block1, piece.block2, piece.block3, piece.block4>>

WithBlocks(piece, b) ==
    [piece EXCEPT !.block1 = b[1], !.block2 = b[2],
                  !.block3 = b[3], !.block4 = b[4]]

\* __init__'s current_piece and stats
InitialPiece ==
    [type |-> "", facing |-> "",
     block1 |-> <<0, 0>>, block2 |-> <<0, 0>>,
     block3 |-> <<0, 0>>, block4 |-> <<0, 0>>]

InitialStats == [score |-> 0, lines |-> 0, level |-> 0, goal |-> 0]

\* set_game_options() with its defaults
DefaultGameOptions ==
    [next_queue |-> 6, hold_queue |-> TRUE, ghost_piece |-> TRUE,
     lock_down |-> "Extended"]

\* list[i] for a list of length n: the position read, or -1 for IndexError
PyIndex(i, n) ==
    IF i >= 0 /\ i < n THEN i
    ELSE IF i < 0 /\ i + n >= 0 THEN i + n
    ELSE -1

\* an operation, the direction or the kind of file it was given ("-" when it
\* takes none) and the numbers it was given: the rows handed to _clear_rows
\* (by the caller, or by _pattern_match's scan), or the next_queue option
Call(name, dir, rows) == [name |-> name, dir |-> dir, rows |-> rows]

\* ---------------------------------------------------- _update_grid_position

Result(g, e) == [grid |-> g, err |-> e]

\* _update_grid_position(row, col, type, ghost): the right-hand side is
\* evaluated before the subscripted target
UpdateGridPosition(g, row, col, type, ghost) ==
    IF type # "E" /\ type \notin Kinds THEN Result(g, "KeyError")
    ELSE IF type # "E" /\ ghost THEN Result(g, "TypeError")
    ELSE IF g = NoneGrid THEN Result(g, "TypeError")
    ELSE LET r == PyIndex(row, Len(g))
             c == PyIndex(col, GridWidth)
             value == IF type = "E" THEN PyInt(0) ELSE GridPieceMap(type)
         IN  IF r = -1 \/ c = -1 THEN Result(g, "IndexError")
             ELSE Result([g EXCEPT ![r + 1][c + 1] = value], "ok")

\* one of the two loops of _update_grid_with_current_piece, from block i on
RECURSIVE UpdateBlocks(_, _, _, _)
UpdateBlocks(g, blocks, type, i) ==
    IF i > 4 THEN Result(g, "ok")
    ELSE LET u == UpdateGridPosition(g, blocks[i][2], blocks[i][1], type, FALSE)
         IN  IF u.err # "ok" THEN u
             ELSE UpdateBlocks(u.grid, blocks, type, i + 1)

\* _update_grid_with_current_piece(old_piece); removeOld is `old_piece is
\* not None`
UpdateGridWithCurrentPiece(g, piece, removeOld, old_piece) ==
    LET erased == IF removeOld
                  THEN UpdateBlocks(g, Blocks(old_piece), "E", 1)
                  ELSE Result(g, "ok")
    IN  IF erased.err # "ok" THEN erased
        ELSE UpdateBlocks(erased.grid, Blocks(piece), piece.type, 1)

\* ------------------------------------------------- _check_movement_possible

RowDelta(direction) == IF direction = "D" THEN -1 ELSE 0

ColDelta(direction) ==
    IF direction = "L" THEN -1 ELSE IF direction = "R" THEN 1 ELSE 0

\* the function ends without a return statement when no block is blocked
CheckFallThroughTrue == "True"

CheckFallThrough == "None"

Answer(r, e) == [ret |-> r, err |-> e]

\* the loop over the blocks, from block i on
RECURSIVE CheckBlocks(_, _, _, _)
CheckBlocks(g, blocks, direction, i) ==
    IF i > 4 THEN Answer(CheckFallThrough, "ok")
    ELSE IF g = NoneGrid THEN Answer("None", "TypeError")
    ELSE LET r == PyIndex(blocks[i][2] + RowDelta(direction), Len(g))
             c == PyIndex(blocks[i][1] + ColDelta(direction), GridWidth)
         IN  IF r = -1 \/ c = -1 THEN Answer("None", "IndexError")
             ELSE IF InRange1To8(g[r + 1][c + 1]) THEN Answer("False", "ok")
             ELSE CheckBlocks(g, blocks, direction, i + 1)

CheckMovementPossible(g, piece, direction) ==
    CheckBlocks(g, Blocks(piece), direction, 1)

Truthy(r) == r = "True"

\* --------------------------------------------------------- _move_current_piece

Shift(piece, direction) ==
    WithBlocks(piece,
        [i \in 1..4 |-> <<Blocks(piece)[i][1] + ColDelta(direction),
                          Blocks(piece)[i][2] + RowDelta(direction)>>])

\* `old_piece = self.current_piece` binds the very dict that the loop then
\* updates in place, so old_piece reads as the piece after the move
OldPiece(before, after) == after

\* a rotation that turns every piece, the O too, and kicks it one column right
SuperRotationKicksRight(piece, clockwise) ==
    [Shift(piece, "R") EXCEPT !.facing = IF clockwise THEN "E" ELSE "W"]

\* _super_rotation(clockwise): returns for an O piece, passes otherwise
SuperRotation(piece, clockwise) == piece

Outcome(p, g, e) == [piece |-> p, grid |-> g, err |-> e]

MoveCurrentPiece(g, piece, direction) ==
    IF direction \in {"L", "R", "D"}
    THEN LET c == CheckMovementPossible(g, piece, direction)
         IN  IF c.err # "ok" THEN Outcome(piece, g, c.err)
             ELSE LET moved == IF Truthy(c.ret) THEN Shift(piece, direction)
                               ELSE piece
                      old_piece == OldPiece(piece, moved)
                  IN  IF old_piece # moved
                      THEN LET u == UpdateGridWithCurrentPiece(g, moved, FALSE, moved)
                           IN  Outcome(moved, u.grid, u.err)
                      ELSE Outcome(moved, g, "ok")
    ELSE IF direction \in {"C", "A"}
    THEN LET moved == SuperRotation(piece, direction = "C")
             old_piece == OldPiece(piece, moved)
         IN  IF old_piece # moved
             THEN LET u == UpdateGridWithCurrentPiece(g, moved, FALSE, moved)
                  IN  Outcome(moved, u.grid, u.err)
             ELSE Outcome(moved, g, "ok")
    ELSE Outcome(piece, g, "ok")

\* _hard_drop: while self._check_movement_possible(): self._move_current_piece()
RECURSIVE HardDropLoop(_, _)
HardDropLoop(g, piece) ==
    LET c == CheckMovementPossible(g, piece, "D")
    IN  IF c.err # "ok" THEN Outcome(piece, g, c.err)
        ELSE IF ~Truthy(c.ret) THEN Outcome(piece, g, "ok")
        ELSE LET m == MoveCurrentPiece(g, piece, "D")
             IN  IF m.err # "ok" THEN m
                 ELSE HardDropLoop(m.grid, m.piece)

\* _falling_phase: `while self._check_movement_possible(): pass` returns when
\* the check answers nothing true, and never when it answers True
FallingPhase(g, piece) ==
    LET c == CheckMovementPossible(g, piece, "D")
    IN  IF c.err # "ok" THEN Answer("None", c.err)
        ELSE IF Truthy(c.ret) THEN Answer("never returns", "ok")
        ELSE Answer("None", "ok")

\* ------------------------------------------------ _clear_rows, _pattern_match

\* list.pop(i) for a position i in 0..len-1: the list without it
PopAt(list, i) == SubSeq(list, 1, i) \o SubSeq(list, i + 2, Len(list))

\* the loop of _clear_rows, from the i-th element of rows on
RECURSIVE ClearRowsFrom(_, _, _)
ClearRowsFrom(g, rows, i) ==
    IF i > Len(rows) THEN Result(g, "ok")
    ELSE IF g = NoneGrid THEN Result(g, "AttributeError")
    ELSE LET r == PyIndex(rows[i], Len(g))
         IN  IF r = -1 THEN Result(g, "IndexError")
             ELSE ClearRowsFrom(Append(PopAt(g, r), EmptyRow), rows, i + 1)

\* a clear that removes the bottom row as well, whatever the list
ClearRowsAndBottom(g, rows) == ClearRowsFrom(g, <<0>> \o rows, 1)

ClearRows(g, rows) == ClearRowsFrom(g, rows, 1)

\* the inner loop of _pattern_match: no cell of the row is outside range(1, 8)
RowClear(row) == \A c \in 1..Len(row) : InRange1To8(row[c])

\* the outer loop of _pattern_match, from row i on: the rows marked, ascending
RECURSIVE RowsToClearFrom(_, _)
RowsToClearFrom(g, i) ==
    IF i >= Len(g) THEN <<>>
    ELSE (IF RowClear(g[i + 1]) THEN <<i>> ELSE <<>>) \o RowsToClearFrom(g, i + 1)

\* _pattern_match: len(None) raises before anything is marked
PatternMatch(g, st) ==
    IF g = NoneGrid
    THEN [grid |-> g, stats |-> st, rows |-> <<>>, err |-> "TypeError"]
    ELSE LET rows == RowsToClearFrom(g, 0)
             cleared == ClearRows(g, rows)
         IN  [grid |-> cleared.grid,
              stats |-> IF cleared.err = "ok"
                        THEN [st EXCEPT !.lines = @ + Len(rows)] ELSE st,
              rows |-> rows, err |-> cleared.err]

\* --------------------------------------------------------- _generation_phase

\* a refill that names S twice and Z never
FullBagDuplicate == <<"O", "I", "T", "L", "J", "S", "S">>

\* lines 348-349: what an empty bag is refilled with
FullBag == <<"O", "I", "T", "L", "J", "S", "Z">>

\* the piece each branch of _generation_phase builds
SpawnPiece(type) ==
    CASE type = "I" -> [type |-> "I", facing |-> "N", block1 |-> <<4, 20>>,
                        block2 |-> <<5, 20>>, block3 |-> <<6, 20>>, block4 |-> <<7, 20>>]
      [] type = "O" -> [type |-> "O", facing |-> "N", block1 |-> <<5, 21>>,
                        block2 |-> <<6, 21>>, block3 |-> <<5, 20>>, block4 |-> <<6, 20>>]
      [] type = "T" -> [type |-> "T", facing |-> "N", block1 |-> <<5, 21>>,
                        block2 |-> <<4, 20>>, block3 |-> <<5, 20>>, block4 |-> <<6, 20>>]
      [] type = "L" -> [type |-> "L", facing |-> "N", block1 |-> <<6, 21>>,
                        block2 |-> <<4, 20>>, block3 |-> <<5, 20>>, block4 |-> <<6, 20>>]
      [] type = "J" -> [type |-> "J", facing |-> "N", block1 |-> <<4, 21>>,
                        block2 |-> <<4, 20>>, block3 |-> <<5, 20>>, block4 |-> <<6, 20>>]
      [] type = "S" -> [type |-> "S", facing |-> "N", block1 |-> <<5, 21>>,
                        block2 |-> <<6, 21>>, block3 |-> <<4, 20>>, block4 |-> <<5, 20>>]
      [] type = "Z" -> [type |-> "Z", facing |-> "N", block1 |-> <<4, 21>>,
                        block2 |-> <<5, 21>>, block3 |-> <<5, 20>>, block4 |-> <<6, 20>>]

\* randint(len(self._bag) - 1): random.randint(a, b) has two required
\* parameters, so the call with one raises TypeError and draws nothing
Randint(a) == [err |-> "TypeError", values |-> {}]

\* lines 418-423: stamp the new piece, then drop it one row if possible
AfterSpawn(g, piece) ==
    LET u == UpdateGridWithCurrentPiece(g, piece, FALSE, piece)
    IN  IF u.err # "ok" THEN Outcome(piece, u.grid, u.err)
        ELSE LET c == CheckMovementPossible(u.grid, piece, "D")
             IN  IF c.err # "ok" THEN Outcome(piece, u.grid, c.err)
                 ELSE IF Truthy(c.ret) THEN MoveCurrentPiece(u.grid, piece, "D")
                 ELSE Outcome(piece, u.grid, "ok")

\* ------------------------------------------------- hold and pause (spec 4.4)

\* the kind in the hold slot, "" when the slot is empty
HeldKind(hold) == IF hold.ty = "str" /\ hold.v \in Kinds THEN hold.v ELSE ""

OnPiece(piece, row, col) == \E i \in 1..4 : Blocks(piece)[i] = <<col, row>>

\* erase(piece) and stamp(piece)
Erase(g, piece) ==
    [r \in 1..Len(g) |-> [c \in 1..GridWidth |->
        IF OnPiece(piece, r - 1, c - 1) THEN PyInt(0) ELSE g[r][c]]]

Stamp(g, piece) ==
    [r \in 1..Len(g) |-> [c \in 1..GridWidth |->
        IF OnPiece(piece, r - 1, c - 1) THEN GridPieceMap(piece.type) ELSE g[r][c]]]

Held(p, h, q, g, u) == [piece |-> p, hold |-> h, queue |-> q, grid |-> g, used |-> u]

\* a Hold that takes effect again during the same piece life
HoldSwapAgain(piece, hold, queue, g, used, running, paused) ==
    LET fromQueue == HeldKind(hold) = ""
        kind == IF ~fromQueue THEN HeldKind(hold)
                ELSE IF queue # NoneQueue /\ queue # <<>> THEN Head(queue)
                ELSE ""
    IN  IF ~running \/ paused \/ g = NoneGrid
           \/ piece.type \notin Kinds \/ kind \notin Kinds
        THEN Held(piece, hold, queue, g, used)
        ELSE Held(SpawnPiece(kind), Str(piece.type),
                  IF fromQueue THEN Tail(queue) ELSE queue,
                  Stamp(Erase(g, piece), SpawnPiece(kind)), TRUE)

\* Hold: rejected while paused, when the game is not running and when the
\* piece in play came out of a Hold; otherwise the kind in play goes to the
\* hold slot and the held kind (the head of the queue if the slot was empty)
\* spawns in its place
HoldSwap(piece, hold, queue, g, used, running, paused) ==
    LET fromQueue == HeldKind(hold) = ""
        kind == IF ~fromQueue THEN HeldKind(hold)
                ELSE IF queue # NoneQueue /\ queue # <<>> THEN Head(queue)
                ELSE ""
    IN  IF ~running \/ paused \/ used \/ g = NoneGrid
           \/ piece.type \notin Kinds \/ kind \notin Kinds
        THEN Held(piece, hold, queue, g, used)
        ELSE Held(SpawnPiece(kind), Str(piece.type),
                  IF fromQueue THEN Tail(queue) ELSE queue,
                  Stamp(Erase(g, piece), SpawnPiece(kind)), TRUE)

\* a new generation makes Hold available again
HoldUsedAfterGeneration == FALSE

\* Pause / Resume: only a running game is paused or resumed
TogglePause(running, paused) == IF running THEN ~paused ELSE paused

\* ---------------------------------------- _completion_phase, set_game_options

\* a level-up that adds five times the level it leaves
CompletionPhaseOldLevel(st) ==
    IF st.goal <= st.lines
    THEN [st EXCEPT !.level = @ + 1, !.goal = @ + st.level * 5]
    ELSE st

\* lines 604-609
CompletionPhase(st) ==
    IF st.goal <= st.lines
    THEN [st EXCEPT !.level = @ + 1, !.goal = @ + (st.level + 1) * 5]
    ELSE st

\* lines 269-274: the arguments are stored as they come
SetGameOptions(next_queue_arg, hold_on, ghost_piece) ==
    [next_queue |-> next_queue_arg, hold_queue |-> hold_on,
     ghost_piece |-> ghost_piece, lock_down |-> "Extended"]

\* the next_queue arguments set_game_options is called with
QueueDepths == {0, 1, 6, 7}

\* ------------------------------------------------------------ saved games

MaxClearRow == 2
MaxCalls == 3
MaxLines == 40
BufferRows == 2

\* a lock fills at most as many rows as the piece has blocks
MaxRowsAtOnce == Len(Blocks(InitialPiece))

Translate(piece, dx, dy) ==
    WithBlocks(piece, [i \in 1..4 |-> <<Blocks(piece)[i][1] + dx,
                                         Blocks(piece)[i][2] + dy>>])

\* the piece the module's own __main__ block sets up
DemoPiece ==
    [type |-> "T", facing |-> "N", block1 |-> <<5, 4>>, block2 |-> <<6, 4>>,
     block3 |-> <<7, 4>>, block4 |-> <<6, 5>>]

\* an O piece whose bottom blocks are (3,0) and (4,0)
ScenarioO == Translate(SpawnPiece("O"), -2, -20)

\* the current_piece line of the save files: every kind where it spawns, and
\* pieces at the left wall, the right wall, the floor, on a stack and in mid-air
SavedPieces ==
    {SpawnPiece(k) : k \in Kinds}
    \cup {Translate(SpawnPiece("I"), -4, -20), Translate(SpawnPiece("I"), 2, -20),
          Translate(SpawnPiece("I"), 0, -18), Translate(SpawnPiece("I"), 0, -10),
          Translate(SpawnPiece("T"), -4, -20), Translate(SpawnPiece("T"), 3, -10),
          Translate(SpawnPiece("O"), 3, -20), ScenarioO, DemoPiece}

IntRow(numbers) == [i \in 1..GridWidth |-> PyInt(numbers[i])]

\* a row as str(grid) records it after pieces were stamped: '1'..'7' and 0
StampedRow(numbers) ==
    [i \in 1..GridWidth |->
        IF numbers[i] = 0 THEN PyInt(0) ELSE PyStr(numbers[i])]

GridOf(bottom) ==
    [r \in 1..GridHeight |-> IF r <= Len(bottom) THEN bottom[r] ELSE EmptyRow]

\* rows 0 and 1 full, rows 2 and 3 partly filled
StackGrid ==
    GridOf(<<IntRow(<<1, 2, 3, 4, 5, 6, 7, 1, 2, 3>>),
             IntRow(<<2, 2, 2, 2, 3, 3, 3, 3, 4, 4>>),
             IntRow(<<0, 5, 0, 0, 0, 0, 0, 0, 6, 0>>),
             IntRow(<<0, 7, 0, 0, 0, 0, 0, 0, 0, 0>>)>>)

\* row 0 occupied except columns 3 and 4, as ints and as stamped by pieces
GapGrid == GridOf(<<IntRow(<<1, 2, 3, 0, 0, 4, 5, 6, 7, 1>>)>>)

StampedGapGrid == GridOf(<<StampedRow(<<2, 2, 2, 0, 0, 3, 3, 3, 4, 4>>)>>)

\* row 0 occupied except columns 3 and 4, which hold the ghost of an O piece
GhostGrid == GridOf(<<IntRow(<<1, 2, 3, 11, 11, 4, 5, 6, 7, 1>>)>>)

\* an O piece right above the ghost cells
GhostO == Translate(SpawnPiece("O"), -2, -19)

\* a grid whose n bottom rows are full
FullRowsGrid(n) == GridOf([r \in 1..n |-> IntRow([i \in 1..GridWidth |-> 1])])

\* a stack in column 5 that reaches row 20, where the pieces spawn
TallGrid ==
    [r \in 1..GridHeight |->
        IF r <= GridHeight - 1
        THEN IntRow(<<0, 0, 0, 0, 0, 3, 0, 0, 0, 0>>) ELSE EmptyRow]

\* no block of the piece is on a cell that holds anything but 0
Unobstructed(piece, g) ==
    \A i \in 1..4 :
        g[Blocks(piece)[i][2] + 1][Blocks(piece)[i][1] + 1] = PyInt(0)

\* what lines 1..6 of a save file spell; hold_queue is the text of line 2
SaveFile(piece, g) ==
    [current_piece |-> piece, hold_queue |-> "None", next_queue |-> <<"I">>,
     stats |-> InitialStats, game_options |-> DefaultGameOptions, grid |-> g]

ScenarioStats == [score |-> 1200, lines |-> 14, level |-> 1, goal |-> 20]

\* a game in progress: a T held, two kinds queued, 14 lines cleared
ScenarioFile ==
    [current_piece |-> ScenarioO, hold_queue |-> "T", next_queue |-> <<"T", "I">>,
     stats |-> ScenarioStats, game_options |-> DefaultGameOptions, grid |-> GapGrid]

\* the files load_game is given
SaveFiles ==
    {SaveFile(p, EmptyGrid) : p \in SavedPieces}
    \cup {SaveFile(p, StackGrid) : p \in {q \in SavedPieces : Unobstructed(q, StackGrid)}}
    \cup {SaveFile(ScenarioO, g) : g \in {GapGrid, StampedGapGrid, TallGrid}}
    \cup {ScenarioFile, SaveFile(GhostO, GhostGrid)}

\* a line of a file: the text str(value) of a value, or any other text
Literal(value) == [kind |-> "literal", value |-> value]
Text(text) == [kind |-> "text", value |-> text]

\* the seven lines of a save file (line 0 is the time it was written)
FileLines(f) ==
    <<Text("time"), Literal(f.current_piece), Text(f.hold_queue),
      Literal(f.next_queue), Literal(f.stats), Literal(f.game_options),
      Literal(f.grid)>>

\* a file cut off after n lines, and a file whose line i is not a literal
CutOff(lines, n) == SubSeq(lines, 1, n)
Garbled(lines, i) == [lines EXCEPT ![i + 1] = Text("corrupt")]

\* the lines that literal_eval reads
LiteralLines == {1, 3, 4, 5, 6}

\* ast.literal_eval(line.strip())
LiteralEval(line) ==
    IF line.kind = "literal" THEN [value |-> line.value, err |-> "ok"]
    ELSE [value |-> line.value, err |-> "ValueError"]

\* line.strip(): the text of a line is modelled without its line break
Strip(line) == Str(line.value)

FieldNames ==
    <<"current_piece", "hold_queue", "next_queue", "stats", "game_options", "grid">>

\* load_game, lines 181-186: one assignment after the other, from lines[i] on
RECURSIVE LoadFrom(_, _, _)
LoadFrom(lines, now, i) ==
    IF i > Len(FieldNames) THEN [fields |-> now, err |-> "ok"]
    ELSE IF Len(lines) < i + 1 THEN [fields |-> now, err |-> "IndexError"]
    ELSE IF FieldNames[i] = "hold_queue"
         THEN LoadFrom(lines, [now EXCEPT !.hold_queue = Strip(lines[i + 1])], i + 1)
    ELSE LET v == LiteralEval(lines[i + 1])
         IN  IF v.err # "ok" THEN [fields |-> now, err |-> v.err]
             ELSE LoadFrom(lines, [now EXCEPT ![FieldNames[i]] = v.value], i + 1)

\* save_game: the file is opened, then the lines are joined; join raises
\* TypeError on a line that is not a str, and hold_queue is written as it is
SaveGame(now) ==
    IF now.hold_queue.ty # "str" THEN [lines |-> <<>>, err |-> "TypeError"]
    ELSE [lines |-> <<Text("time"), Literal(now.current_piece),
                      Text(now.hold_queue.v), Literal(now.next_queue),
                      Literal(now.stats), Literal(now.game_options),
                      Literal(now.grid)>>,
          err |-> "ok"]

\* the ascending list of a set of row numbers
RECURSIVE Ascending(_)
Ascending(S) ==
    IF S = {} THEN <<>>
    ELSE LET m == CHOOSE x \in S : \A y \in S : x <= y
         IN  <<m>> \o Ascending(S \ {m})

\* the row lists _clear_rows is called with
RowLists == {Ascending(S) : S \in SUBSET (0..MaxClearRow)}

\* nothing was saved yet
NoFile == [written |-> FALSE, lines |-> <<>>]

\* ------------------------------------------------------------- leaderboard

\* a field of a csv line: letters, or the digits of a number
Word(text) == [ty |-> "word", v |-> text]
Digits(n) == [ty |-> "digits", v |-> n]

\* the leaderboard file: absent, or its lines, each the fields of one row
NoBoard == [exists |-> FALSE, lines |-> <<>>]
BoardOf(lines) == [exists |-> TRUE, lines |-> lines]

HeaderLine == <<Word("Initials"), Word("Score")>>

\* the line DictWriter.writerow writes for {"Initials": initials, "Score": score}
RowLine(initials, score) == <<Word(initials), Digits(score)>>

\* the files a leaderboard path can name when the engine first uses it: an
\* empty file, a header, and a header with the rows of earlier games
LeaderboardFiles ==
    {BoardOf(<<>>), BoardOf(<<HeaderLine>>),
     BoardOf(<<HeaderLine, RowLine("AB", 100)>>),
     BoardOf(<<HeaderLine, RowLine("CD", 50), RowLine("AB", 100)>>)}

Initials == {"AB", "CD"}
Scores == {50, 100}

\* row[name] of the dict DictReader builds from the first line's fields:
\* the field under the last column of that name, or KeyError
DictGet(fieldnames, line, name) ==
    LET at == {i \in 1..Len(fieldnames) :
                 fieldnames[i].ty = "word" /\ fieldnames[i].v = name}
    IN  IF at = {} THEN [err |-> "KeyError"]
        ELSE [err |-> "ok",
              field |-> line[CHOOSE i \in at : \A j \in at : j <= i]]

\* int(text)
PyIntOf(field) ==
    IF field.ty = "digits" THEN [err |-> "ok", v |-> field.v]
    ELSE [err |-> "ValueError"]

\* the loop of read_leaderboard over the rows after the first line
RECURSIVE ReadRows(_, _, _)
ReadRows(fieldnames, lines, output_list) ==
    IF lines = <<>> THEN [err |-> "ok", list |-> output_list]
    ELSE LET initials == DictGet(fieldnames, Head(lines), "Initials")
             score == DictGet(fieldnames, Head(lines), "Score")
         IN  IF initials.err # "ok" THEN [err |-> initials.err, list |-> <<>>]
             ELSE IF score.err # "ok" THEN [err |-> score.err, list |-> <<>>]
             ELSE IF PyIntOf(score.field).err # "ok"
             THEN [err |-> PyIntOf(score.field).err, list |-> <<>>]
             ELSE ReadRows(fieldnames, Tail(lines),
                           Append(output_list,
                                  <<initials.field.v, PyIntOf(score.field).v>>))

\* where list.sort(key=lambda x: x[1]) puts one more entry: after every entry
\* whose score is not larger
RECURSIVE SortInsert(_, _)
SortInsert(sorted, entry) ==
    IF sorted = <<>> THEN <<entry>>
    ELSE IF Head(sorted)[2] <= entry[2]
    THEN <<Head(sorted)>> \o SortInsert(Tail(sorted), entry)
    ELSE <<entry>> \o sorted

\* output_list.sort(key=lambda x: x[1]): ascending by score, stable
RECURSIVE SortByScoreFrom(_, _)
SortByScoreFrom(list, sorted) ==
    IF list = <<>> THEN sorted
    ELSE SortByScoreFrom(Tail(list), SortInsert(sorted, Head(list)))

SortByScore(list) == SortByScoreFrom(list, <<>>)

\* read_leaderboard()
ReadLeaderboard(board) ==
    IF ~board.exists THEN [err |-> "FileNotFoundError", list |-> <<>>]
    ELSE IF board.lines = <<>> THEN [err |-> "ok", list |-> <<>>]
    ELSE LET rows == ReadRows(Head(board.lines), Tail(board.lines), <<>>)
         IN  IF rows.err # "ok" THEN rows
             ELSE [err |-> "ok", list |-> SortByScore(rows.list)]

\* add_to_leaderboard(initials, score): opens for append, writes one row
AddToLeaderboard(board, initials, score) ==
    BoardOf(board.lines \o <<RowLine(initials, score)>>)

\* ------------------------------------------------------------------ Matrix

MatrixHeight == GridHeight - BufferRows

\* _create_empty_matrix: 20 rows of 10 black rectangles
EmptyMatrix == [r \in 1..MatrixHeight |-> [c \in 1..GridWidth |-> "black"]]

\* _grid_piece_colour_map: its keys are the integers 0..7
Colours ==
    <<"yellow", "#40bbe3", "magenta", "#ff8000", "blue", "green", "red">>

HasColour(type) == type.ty = "int" /\ type.v \in 0..7

ColourOf(type) == IF type.v = 0 THEN "black" ELSE Colours[type.v]

\* list(reversed(grid)): the top row first
Reversed(g) == [r \in 1..Len(g) |-> g[Len(g) + 1 - r]]

\* the cells (col, row) of rows 2..21, row by row, as both loops walk them
AllCells ==
    [n \in 1..(MatrixHeight * GridWidth) |->
        <<(n - 1) % GridWidth, BufferRows + ((n - 1) \div GridWidth)>>]

\* the changes update_grid collects: the cells of rows 2..21 that differ
Changes(old, new) ==
    LET Differs(cell) == old[cell[2] + 1][cell[1] + 1] # new[cell[2] + 1][cell[1] + 1]
    IN  SelectSeq(AllCells, Differs)

\* _update_matrix(changes) with _update_matrix_cell: the rectangles are
\* filled one change after the other, up to the first value without a colour
UpdateMatrix(m, current, changes) ==
    LET Value(i) == current[changes[i][2] + 1][changes[i][1] + 1]
        bad == {i \in 1..Len(changes) : ~HasColour(Value(i))}
        stop == IF bad = {} THEN Len(changes) + 1
                ELSE CHOOSE i \in bad : \A j \in bad : i <= j
        Filled(r, c) == \E i \in 1..(stop - 1) :
                            changes[i] = <<c - 1, r - 1 + BufferRows>>
    IN  [matrix |-> [r \in 1..MatrixHeight |-> [c \in 1..GridWidth |->
                        IF Filled(r, c)
                        THEN ColourOf(current[r + BufferRows][c])
                        ELSE m[r][c]]],
         err |-> IF bad = {} THEN "ok" ELSE "KeyError"]

\* Matrix.update_grid(grid)
UpdateGrid(current, m, g) ==
    IF g = NoneGrid
    THEN [current_grid |-> current, matrix |-> m, err |-> "TypeError"]
    ELSE IF Len(g) < GridHeight
    THEN [current_grid |-> current, matrix |-> m, err |-> "IndexError"]
    ELSE LET new == Reversed(g)
             drawn == UpdateMatrix(m, new, Changes(current, new))
         IN  [current_grid |-> new, matrix |-> drawn.matrix, err |-> drawn.err]

\* _update_matrix(None): every rectangle is filled again from current_grid
RedrawMatrix(current, m) ==
    LET drawn == UpdateMatrix(m, current, AllCells)
    IN  [current_grid |-> current, matrix |-> drawn.matrix, err |-> drawn.err]

\* update_ui_panels() where a handler reaches it: not after an exception
UiPanelsAfter(raised, current, m, g) ==
    IF raised # "ok"
    THEN [current_grid |-> current, matrix |-> m, err |-> raised]
    ELSE UpdateGrid(current, m, g)

\* ------------------------------------------------------------------ actions

Init ==
    /\ grid = NoneGrid
    /\ current_piece = InitialPiece
    /\ next_queue = NoneQueue
    /\ hold_queue = PyNone
    /\ stats = InitialStats
    /\ game_options = DefaultGameOptions
    /\ bag = <<>>
    /\ game_running = FALSE
    /\ game_paused = FALSE
    /\ hold_used = FALSE
    /\ saved = NoFile
    /\ leaderboard = NoBoard
    /\ current_grid = [r \in 1..GridHeight |-> EmptyRow]
    /\ matrix = EmptyMatrix
    /\ op = Call("init", "-", <<>>)
    /\ ret = "None"
    /\ err = "ok"
    /\ calls = 0

\* every operation is one more call
Called == calls < MaxCalls /\ calls' = calls + 1

CreateGrid ==
    /\ grid' = EmptyGrid
    /\ op' = Call("create_grid", "-", <<>>)
    /\ ret' = "None"
    /\ err' = "ok"
    /\ UNCHANGED <<current_piece, next_queue, hold_queue, stats, game_options,
                 bag, flags, saved, leaderboard, screen>>

\* the six state variables a save file holds
Fields ==
    [current_piece |-> current_piece, hold_queue |-> hold_queue,
     next_queue |-> next_queue, stats |-> stats, game_options |-> game_options,
     grid |-> grid]

\* load_game(filename) on a file with these lines, as the given call
Load(lines, call) ==
    LET l == LoadFrom(lines, Fields, 1)
    IN  /\ current_piece' = l.fields.current_piece
        /\ hold_queue' = l.fields.hold_queue
        /\ next_queue' = l.fields.next_queue
        /\ stats' = l.fields.stats
        /\ game_options' = l.fields.game_options
        /\ grid' = l.fields.grid
        /\ op' = call
        /\ ret' = "None"
        /\ err' = l.err

LoadGame ==
    /\ \E f \in SaveFiles : Load(FileLines(f), Call("load_game", "intact", <<>>))
    /\ UNCHANGED <<bag, flags, saved, leaderboard, screen>>

\* load_game on a file that was cut off, or that has a line of other text
LoadDamagedGame ==
    /\ \/ \E n \in 0..(Len(FileLines(ScenarioFile)) - 1) :
              Load(CutOff(FileLines(ScenarioFile), n),
                   Call("load_game", "damaged", <<>>))
       \/ \E i \in LiteralLines :
              Load(Garbled(FileLines(ScenarioFile), i),
                   Call("load_game", "damaged", <<>>))
    /\ UNCHANGED <<bag, flags, saved, leaderboard, screen>>

\* load_game on the file save_game wrote
LoadSavedGame ==
    /\ saved.written
    /\ Load(saved.lines, Call("load_game", "saved", <<>>))
    /\ UNCHANGED <<bag, flags, saved, leaderboard, screen>>

CallSaveGame ==
    LET w == SaveGame(Fields)
    IN  /\ saved' = [written |-> TRUE, lines |-> w.lines]
        /\ op' = Call("save_game", "-", <<>>)
        /\ ret' = "None"
        /\ err' = w.err
        /\ UNCHANGED <<grid, current_piece, next_queue, hold_queue, stats,
                       game_options, bag, flags, leaderboard, screen>>

CallUpdateGridWithCurrentPiece ==
    LET u == UpdateGridWithCurrentPiece(grid, current_piece, FALSE, current_piece)
    IN  /\ grid' = u.grid
        /\ op' = Call("update_grid_with_current_piece", "-", <<>>)
        /\ ret' = "None"
        /\ err' = u.err
        /\ UNCHANGED <<current_piece, next_queue, hold_queue, stats, game_options,
                 bag, flags, saved, leaderboard, screen>>

CallCheckMovementPossible ==
    \E direction \in {"L", "R", "D"} :
        LET c == CheckMovementPossible(grid, current_piece, direction)
        IN  /\ op' = Call("check_movement_possible", direction, <<>>)
            /\ ret' = c.ret
            /\ err' = c.err
            /\ UNCHANGED <<grid, current_piece, next_queue, hold_queue, stats,
                           game_options, bag, flags, saved, leaderboard, screen>>

CallMoveCurrentPiece ==
    \E direction \in {"L", "R", "D", "C", "A"} :
        LET m == MoveCurrentPiece(grid, current_piece, direction)
        IN  /\ current_piece' = m.piece
            /\ grid' = m.grid
            /\ op' = Call("move_current_piece", direction, <<>>)
            /\ ret' = "None"
            /\ err' = m.err
            /\ UNCHANGED <<next_queue, hold_queue, stats, game_options, bag, flags, saved, leaderboard, screen>>

CallHardDrop ==
    LET h == HardDropLoop(grid, current_piece)
    IN  /\ current_piece' = h.piece
        /\ grid' = h.grid
        /\ op' = Call("hard_drop", "-", <<>>)
        /\ ret' = "None"
        /\ err' = h.err
        /\ UNCHANGED <<next_queue, hold_queue, stats, game_options, bag, flags, saved, leaderboard, screen>>

CallFallingPhase ==
    LET f == FallingPhase(grid, current_piece)
    IN  /\ op' = Call("falling_phase", "-", <<>>)
        /\ ret' = f.ret
        /\ err' = f.err
        /\ UNCHANGED <<grid, current_piece, next_queue, hold_queue, stats,
                       game_options, bag, flags, saved, leaderboard, screen>>

CallPatternMatch ==
    LET m == PatternMatch(grid, stats)
    IN  /\ grid' = m.grid
        /\ stats' = m.stats
        /\ op' = Call("pattern_match", "-", m.rows)
        /\ ret' = "None"
        /\ err' = m.err
        /\ UNCHANGED <<current_piece, next_queue, hold_queue, game_options, bag, flags, saved, leaderboard, screen>>

CallClearRows ==
    \E rows \in RowLists :
        LET c == ClearRows(grid, rows)
        IN  /\ grid' = c.grid
            /\ op' = Call("clear_rows", "-", rows)
            /\ ret' = "None"
            /\ err' = c.err
            /\ UNCHANGED <<current_piece, next_queue, hold_queue, stats,
                           game_options, bag, flags, saved, leaderboard, screen>>

CallCompletionPhase ==
    /\ stats' = CompletionPhase(stats)
    /\ op' = Call("completion_phase", "-", <<>>)
    /\ ret' = "None"
    /\ err' = "ok"
    /\ UNCHANGED <<grid, current_piece, next_queue, hold_queue, game_options,
                   bag, flags, saved, leaderboard, screen>>

CallSetGameOptions ==
    \E n \in QueueDepths, hold_on \in BOOLEAN :
        /\ game_options' = SetGameOptions(n, hold_on, TRUE)
        /\ op' = Call("set_game_options", "-", <<n>>)
        /\ ret' = "None"
        /\ err' = "ok"
        /\ UNCHANGED <<grid, current_piece, next_queue, hold_queue, stats,
                       bag, flags, saved, leaderboard, screen>>

\* _generation_phase: pop the head of the queue, refill the bag if empty, draw
\* the index, then (only if the draw returned) extend the queue and spawn
GenerationPhase ==
    /\ op' = Call("generation_phase", "-", <<>>)
    /\ ret' = "None"
    /\ UNCHANGED <<hold_queue, stats, game_options, game_running, game_paused, saved, leaderboard, screen>>
    /\ IF next_queue = NoneQueue \/ next_queue = <<>>
       THEN /\ err' = IF next_queue = NoneQueue THEN "AttributeError" ELSE "IndexError"
            /\ UNCHANGED <<grid, current_piece, next_queue, bag, hold_used>>
       ELSE LET new_type == Head(next_queue)
                refilled == IF bag = <<>> THEN FullBag ELSE bag
                draw == Randint(Len(refilled) - 1)
            IN  IF draw.err # "ok"
                THEN /\ next_queue' = Tail(next_queue)
                     /\ bag' = refilled
                     /\ err' = draw.err
                     /\ UNCHANGED <<grid, current_piece, hold_used>>
                ELSE \E k \in draw.values :
                        LET piece == IF new_type \in Kinds THEN SpawnPiece(new_type)
                                     ELSE current_piece
                            s == AfterSpawn(grid, piece)
                        IN  /\ next_queue' = Append(Tail(next_queue), refilled[k + 1])
                            /\ bag' = PopAt(refilled, k)
                            /\ current_piece' = s.piece
                            /\ grid' = s.grid
                            /\ hold_used' = HoldUsedAfterGeneration
                            /\ err' = s.err

\* start_game, lines 329-334
StartGame ==
    /\ game_running' = TRUE
    /\ op' = Call("start_game", "-", <<>>)
    /\ ret' = "None"
    /\ err' = "ok"
    /\ UNCHANGED <<grid, current_piece, next_queue, hold_queue, stats,
                   game_options, bag, game_paused, hold_used, saved, leaderboard, screen>>

\* ------------------------------------------- the application (src/main.py)

\* LineClearApp.load_game: the engine loads the file, then the game starts
AppLoadGame ==
    /\ \E f \in SaveFiles : Load(FileLines(f), Call("app_load_game", "intact", <<>>))
    /\ game_running' = TRUE
    /\ UNCHANGED <<bag, game_paused, hold_used, saved, leaderboard, screen>>

\* LineClearApp.toggle_pause_game
TogglePauseGame ==
    LET paused == TogglePause(game_running, game_paused)
        u == IF paused
             THEN [current_grid |-> current_grid, matrix |-> matrix, err |-> "ok"]
             ELSE RedrawMatrix(current_grid, matrix)
    IN  /\ game_paused' = paused
        /\ matrix' = u.matrix
        /\ op' = Call("toggle_pause_game", "-", <<>>)
        /\ ret' = "None"
        /\ err' = u.err
        /\ UNCHANGED <<grid, current_piece, next_queue, hold_queue, stats,
                       game_options, bag, game_running, hold_used, saved,
                       leaderboard, current_grid>>

\* the actions of Matrix._keybind_map that reach the engine
KeybindActions ==
    {"mv_left", "mv_right", "rt_clock", "rt_anti", "softdrop", "harddrop", "hold"}

\* the direction _perform_actions_pressed passes for an action
Direction(action) ==
    CASE action = "mv_left" -> "L" [] action = "mv_right" -> "R"
      [] action = "rt_clock" -> "C" [] action = "rt_anti" -> "A"
      [] action = "softdrop" -> "SD"

\* Matrix._perform_actions_pressed with one key held: the engine's move,
\* hard drop or hold is called whatever the flags are
PerformActionsPressed ==
    \E action \in KeybindActions :
        /\ op' = Call("perform_actions_pressed", action, <<>>)
        /\ ret' = "None"
        /\ UNCHANGED <<stats, game_options, bag, game_running, game_paused, saved, leaderboard>>
        /\ IF action = "hold"
           THEN LET h == HoldSwap(current_piece, hold_queue, next_queue, grid,
                                  hold_used, game_running, game_paused)
                    u == UiPanelsAfter("ok", current_grid, matrix, h.grid)
                IN  /\ current_piece' = h.piece
                    /\ hold_queue' = h.hold
                    /\ next_queue' = h.queue
                    /\ grid' = h.grid
                    /\ hold_used' = h.used
                    /\ current_grid' = u.current_grid
                    /\ matrix' = u.matrix
                    /\ err' = u.err
           ELSE LET m == IF action = "harddrop" THEN HardDropLoop(grid, current_piece)
                         ELSE MoveCurrentPiece(grid, current_piece, Direction(action))
                    u == UiPanelsAfter(m.err, current_grid, matrix, m.grid)
                IN  /\ current_piece' = m.piece
                    /\ grid' = m.grid
                    /\ current_grid' = u.current_grid
                    /\ matrix' = u.matrix
                    /\ err' = u.err
                    /\ UNCHANGED <<hold_queue, next_queue, hold_used>>

\* the two tests of _main_run_loop
ShowsGameOver(running, paused) == ~running /\ ~paused

FallsWhilePaused(running, paused) == running

Falls(running, paused) == running /\ ~paused

\* LineClearApp._main_run_loop: the game-over screen, or a falling phase, or
\* (paused) nothing but the next tick
MainRunLoop ==
    /\ UNCHANGED <<grid, current_piece, next_queue, hold_queue, stats,
                   game_options, bag, flags, saved, leaderboard>>
    /\ IF ShowsGameOver(game_running, game_paused)
       THEN /\ op' = Call("main_run_loop", "game_over", <<>>)
            /\ ret' = "None"
            /\ err' = "ok"
            /\ UNCHANGED screen
       ELSE IF Falls(game_running, game_paused)
       THEN LET f == FallingPhase(grid, current_piece)
                u == IF f.ret = "never returns"
                     THEN [current_grid |-> current_grid, matrix |-> matrix, err |-> f.err]
                     ELSE UiPanelsAfter(f.err, current_grid, matrix, grid)
            IN  /\ op' = Call("main_run_loop", "falling_phase", <<>>)
                /\ ret' = f.ret
                /\ current_grid' = u.current_grid
                /\ matrix' = u.matrix
                /\ err' = u.err
       ELSE /\ op' = Call("main_run_loop", "-", <<>>)
            /\ ret' = "None"
            /\ err' = "ok"
            /\ UNCHANGED screen

Next ==
    \/ Called /\ CreateGrid
    \/ Called /\ LoadGame
    \/ Called /\ CallUpdateGridWithCurrentPiece
    \/ Called /\ CallCheckMovementPossible
    \/ Called /\ CallMoveCurrentPiece
    \/ Called /\ CallHardDrop
    \/ Called /\ CallFallingPhase
    \/ Called /\ CallPatternMatch
    \/ Called /\ CallClearRows
    \/ Called /\ GenerationPhase

Spec == Init /\ [][Next]_vars

\* a session of configuring, loading, scoring and saving, without moves
SessionNext ==
    \/ Called /\ CreateGrid
    \/ Called /\ LoadGame
    \/ Called /\ LoadDamagedGame
    \/ Called /\ LoadSavedGame
    \/ Called /\ CallSaveGame
    \/ Called /\ CallSetGameOptions
    \/ Called /\ CallPatternMatch
    \/ Called /\ CallCompletionPhase

SessionSpec == Init /\ [][SessionNext]_vars

\* a game at the keyboard: load, start, pause, keys and ticks
GameNext ==
    \/ Called /\ LoadGame
    \/ Called /\ AppLoadGame
    \/ Called /\ StartGame
    \/ Called /\ TogglePauseGame
    \/ Called /\ PerformActionsPressed
    \/ Called /\ MainRunLoop
    \/ Called /\ GenerationPhase

GameSpec == Init /\ [][GameNext]_vars

\* the engine is given the file its leaderboard path names
ProvideLeaderboard ==
    /\ leaderboard = NoBoard
    /\ leaderboard' \in LeaderboardFiles
    /\ op' = Call("provide_leaderboard", "-", <<>>)
    /\ ret' = "None"
    /\ err' = "ok"
    /\ UNCHANGED <<grid, current_piece, next_queue, hold_queue, stats,
                   game_options, bag, flags, saved, screen>>

CallReadLeaderboard ==
    LET r == ReadLeaderboard(leaderboard)
    IN  /\ op' = Call("read_leaderboard", "-", <<>>)
        /\ ret' = r.list
        /\ err' = r.err
        /\ UNCHANGED <<grid, current_piece, next_queue, hold_queue, stats,
                       game_options, bag, flags, saved, leaderboard, screen>>

CallAddToLeaderboard ==
    \E initials \in Initials : \E score \in Scores :
        /\ leaderboard' = AddToLeaderboard(leaderboard, initials, score)
        /\ op' = Call("add_to_leaderboard", initials, <<score>>)
        /\ ret' = "None"
        /\ err' = "ok"
        /\ UNCHANGED <<grid, current_piece, next_queue, hold_queue, stats,
                       game_options, bag, flags, saved, screen>>

\* the leaderboard over the games of a session
BoardNext ==
    \/ Called /\ ProvideLeaderboard
    \/ Called /\ CallReadLeaderboard
    \/ Called /\ CallAddToLeaderboard

BoardSpec == Init /\ [][BoardNext]_vars

\* LineClearApp.update_ui_panels: the Matrix frame is given the engine's grid
UpdateUiPanels ==
    LET u == UpdateGrid(current_grid, matrix, grid)
    IN  /\ current_grid' = u.current_grid
        /\ matrix' = u.matrix
        /\ op' = Call("update_grid", "-", <<>>)
        /\ ret' = "None"
        /\ err' = u.err
        /\ UNCHANGED <<grid, current_piece, next_queue, hold_queue, stats,
                       game_options, bag, flags, saved, leaderboard, calls>>

\* the engine's grid changes and the screen follows
RenderNext ==
    \/ Called /\ CreateGrid
    \/ Called /\ LoadGame
    \/ Called /\ CallUpdateGridWithCurrentPiece
    \/ Called /\ CallClearRows
    \/ UpdateUiPanels

RenderSpec == Init /\ [][RenderNext]_vars

\* the pattern phase of a round: _pattern_match on the grid the round ends
\* with, whose bottom rows a lock has filled; once in a round
PatternPhase ==
    \E n \in 0..MaxRowsAtOnce :
        LET m == PatternMatch(FullRowsGrid(n), stats)
        IN  /\ op.name # "pattern_match"
            /\ stats.lines < MaxLines
            /\ grid' = m.grid
            /\ stats' = m.stats
            /\ op' = Call("pattern_match", "-", m.rows)
            /\ ret' = "None"
            /\ err' = m.err
            /\ UNCHANGED <<current_piece, next_queue, hold_queue, game_options,
                           bag, flags, saved, leaderboard, screen, calls>>

\* the completion phase that ends the round
CompletionOfRound ==
    /\ op.name # "completion_phase"
    /\ CallCompletionPhase
    /\ UNCHANGED calls

\* the rounds of a game: lines cleared, then the completion phase
RoundNext ==
    \/ PatternPhase
    \/ CompletionOfRound

RoundSpec == Init /\ [][RoundNext]_vars

\* ------------------------------------------------ what the claims speak of

Cell(g, block) == g[block[2] + 1][block[1] + 1]

\* Occupied(kind): the cell holds a kind's number, as an int or as stamped
Occupied(cell) == cell.v \in 1..7

InBounds(piece) ==
    \A i \in 1..4 : /\ Blocks(piece)[i][1] \in 0..(GridWidth - 1)
                    /\ Blocks(piece)[i][2] \in 0..(GridHeight - 1)

BlockSet(piece) == {Blocks(piece)[i] : i \in 1..4}

\* a piece of a real kind, on a grid
Playable(piece, g) == g # NoneGrid /\ piece.type \in Kinds

\* Piece invariant: in bounds, and on cells that are Empty or hold the piece
PieceInvariant(piece, g) ==
    /\ InBounds(piece)
    /\ \A b \in BlockSet(piece) :
          ~Occupied(Cell(g, b)) \/ Cell(g, b).v = KindNumber(piece.type)

\* is_legal of `moved`, a new position of `piece`: in bounds, and every
\* target Empty or one of the cells the piece is on now
LegalFrom(piece, moved, g) ==
    /\ InBounds(moved)
    /\ \A b \in BlockSet(moved) : ~Occupied(Cell(g, b)) \/ b \in BlockSet(piece)

ShiftLegal(piece, g, direction) == LegalFrom(piece, Shift(piece, direction), g)

FullRows(g) == {i \in 0..(Len(g) - 1) : \A c \in 1..GridWidth : Occupied(g[i + 1][c])}

Elements(list) == {list[i] : i \in 1..Len(list)}

\* the rows of g outside S, in order, from row i on
RECURSIVE KeepRowsFrom(_, _, _)
KeepRowsFrom(g, S, i) ==
    IF i >= Len(g) THEN <<>>
    ELSE (IF i \in S THEN <<>> ELSE <<g[i + 1]>>) \o KeepRowsFrom(g, S, i + 1)

\* remove the named rows, then pad with empty rows at the top
RemoveAndPad(g, S) ==
    LET kept == KeepRowsFrom(g, S, 0)
    IN  [r \in 1..Len(g) |-> IF r <= Len(kept) THEN kept[r] ELSE EmptyRow]

\* the largest k such that the piece is legal 1, 2, ..., k rows further down
DropDistance(piece, g) ==
    CHOOSE k \in 0..GridHeight :
        /\ \A j \in 1..k : LegalFrom(piece, Translate(piece, 0, -j), g)
        /\ ~LegalFrom(piece, Translate(piece, 0, -(k + 1)), g)

IsMove == op'.name = "move_current_piece" /\ op'.dir \in {"L", "R", "D"}

\* ------------------------------------------------------------------ claims

\* the piece _generation_phase builds for every kind, stamped and dropped by
\* its lines 418-423 onto grid g, satisfies the piece invariant
SpawnKeepsInvariant(g) ==
    \A k \in Kinds :
        LET s == AfterSpawn(g, SpawnPiece(k))
        IN  s.err = "ok" /\ PieceInvariant(s.piece, s.grid)

C2_CheckIsBooleanAndSound ==
    (op.name = "check_movement_possible"
       /\ Playable(current_piece, grid) /\ InBounds(current_piece))
    => /\ err = "ok"
       /\ ret \in {"True", "False"}
       /\ ret = "True" => ShiftLegal(current_piece, grid, op.dir)

\* C3: a MoveLeft, MoveRight or SoftDrop whose shifted position is legal is
\* performed: every block shifts by one cell, kind and facing stay.
C3_LegalMoveIsPerformed ==
    [][(IsMove /\ Playable(current_piece, grid) /\ InBounds(current_piece)
          /\ ShiftLegal(current_piece, grid, op'.dir))
        => current_piece' = Shift(current_piece, op'.dir)]_vars

\* C4: an illegal move request, and a rotation request (which this engine can
\* never perform), is rejected without error and changes neither the piece,
\* the grid, the stats, the next queue nor the hold queue.
C4_IllegalRequestChangesNothing ==
    [][(op'.name = "move_current_piece"
          /\ Playable(current_piece, grid) /\ InBounds(current_piece)
          /\ (op'.dir \in {"C", "A"}
                \/ ~ShiftLegal(current_piece, grid, op'.dir)))
        => /\ err' = "ok"
           /\ UNCHANGED <<current_piece, grid, stats, next_queue, hold_queue>>]_vars

\* C5: _clear_rows on a set of rows leaves the grid with exactly those rows
\* removed, the others in order, and empty rows padded at the top.
C5_ClearRowsRemovesNamedRows ==
    [][(op'.name = "clear_rows" /\ grid # NoneGrid)
        => /\ err' = "ok"
           /\ grid' = RemoveAndPad(grid, Elements(op'.rows))]_vars

\* C6: the scan of _pattern_match marks exactly the rows whose 10 cells are
\* all Occupied, cells stamped by pieces included.
C6_ScanMarksExactlyFullRows ==
    [][(op'.name = "pattern_match" /\ grid # NoneGrid)
        => Elements(op'.rows) = FullRows(grid)]_vars

\* C7: after the line-clear step the grid has 22 rows of 10 cells and no full
\* row.
C7_NoFullRowAfterLineClear ==
    (op.name = "pattern_match" /\ err = "ok")
    => /\ Len(grid) = GridHeight
       /\ \A r \in 1..Len(grid) : Len(grid[r]) = GridWidth
       /\ FullRows(grid) = {}

\* the grid with row 0 occupied but for columns 3 and 4, after an O piece
\* locked into them
ScenarioLocked ==
    /\ current_piece = ScenarioO
    /\ grid # NoneGrid
    /\ FullRows(grid) = {0}
    /\ \A b \in BlockSet(ScenarioO) : Cell(grid, b) = GridPieceMap("O")

\* C8: the line-clear step adds to stats.lines the number of full rows; in
\* the O-piece scenario it clears exactly row 0 and lines grows by 1.
C8_LinesGrowByRowsCleared ==
    [][(op'.name = "pattern_match" /\ grid # NoneGrid)
        => /\ stats'.lines = stats.lines + Cardinality(FullRows(grid))
           /\ ScenarioLocked
                => /\ grid' = RemoveAndPad(grid, {0})
                   /\ stats'.lines = stats.lines + 1]_vars

\* C9: on an empty grid, generating an I piece leaves it facing N on row 20,
\* columns 4..7; a SoftDrop of an I piece alone on the grid is rejected only
\* when its 4 blocks are on row 0, still in columns 4..7.
C9_SpawnedIPieceDropsToFloor ==
    [][/\ (op'.name = "generation_phase" /\ grid = EmptyGrid
             /\ next_queue # NoneQueue /\ next_queue # <<>>
             /\ Head(next_queue) = "I")
          => /\ err' = "ok"
             /\ current_piece'.type = "I" /\ current_piece'.facing = "N"
             /\ Blocks(current_piece') = <<<<4, 20>>, <<5, 20>>, <<6, 20>>, <<7, 20>>>>
       /\ (IsMove /\ op'.dir = "D" /\ grid = EmptyGrid
             /\ \E dy \in {0 - k : k \in 0..20} :
                   current_piece = Translate(SpawnPiece("I"), 0, dy)
             /\ current_piece' = current_piece)
          => Blocks(current_piece) = <<<<4, 0>>, <<5, 0>>, <<6, 0>>, <<7, 0>>>>]_vars

\* C10: HardDrop of a legally placed piece leaves it in its columns, moved down
\* by the largest k for which every position on the way is legal, so that a
\* further down-move is illegal.
C10_HardDropReachesTheStack ==
    [][(op'.name = "hard_drop" /\ Playable(current_piece, grid)
          /\ PieceInvariant(current_piece, grid))
        => /\ err' = "ok"
           /\ current_piece' =
                Translate(current_piece, 0, -DropDistance(current_piece, grid))
           /\ ~ShiftLegal(current_piece', grid', "D")]_vars

\* a list that names no kind twice, and one that names each kind once
NoDuplicate(list) == \A i, j \in 1..Len(list) : list[i] = list[j] => i = j

OneOfEach(list) == Len(list) = Cardinality(Kinds) /\ Elements(list) = Kinds

Last(list) == list[Len(list)]

\* the generation step was called with a queue to pop from, on a grid
GenerationStep ==
    /\ op'.name = "generation_phase"
    /\ next_queue # NoneQueue
    /\ next_queue # <<>>
    /\ grid # NoneGrid

C12_DrawReturnsAKind ==
    [][GenerationStep =>
         LET refilled == IF bag = <<>> THEN Kinds ELSE Elements(bag)
         IN  /\ err' = "ok"
             /\ Len(next_queue') > 0
             /\ Last(next_queue') \in refilled
             /\ Elements(bag') = refilled \ {Last(next_queue')}]_vars

\* C13: with a non-empty queue whose head can spawn freely, the generation
\* step makes the head's kind the current piece, facing N, on 4 cells that
\* hold its kind, and the queue is its old tail plus one kind at the end.
C13_GenerationSpawnsTheHeadOfTheQueue ==
    [][(GenerationStep /\ Head(next_queue) \in Kinds
          /\ Unobstructed(SpawnPiece(Head(next_queue)), grid)) =>
         /\ current_piece'.type = Head(next_queue)
         /\ current_piece'.facing = "N"
         /\ \A b \in BlockSet(current_piece') :
               Cell(grid', b).v = KindNumber(Head(next_queue))
         /\ Len(next_queue') = Len(next_queue)
         /\ \A i \in 1..(Len(next_queue) - 1) : next_queue'[i] = next_queue[i + 1]
         /\ Last(next_queue') \in Kinds]_vars

\* C15: the completion phase levels up exactly when lines >= goal: level
\* grows by 1 and goal by 5 times the new level, hence strictly; otherwise
\* level and goal stay; score and lines stay in both cases.
C15_CompletionLevelsUpAtGoal ==
    [][op'.name = "completion_phase" =>
         /\ err' = "ok"
         /\ stats'.score = stats.score
         /\ stats'.lines = stats.lines
         /\ IF stats.lines >= stats.goal
            THEN /\ stats'.level = stats.level + 1
                 /\ stats'.goal = stats.goal + 5 * stats'.level
                 /\ stats'.goal > stats.goal
            ELSE /\ stats'.level = stats.level
                 /\ stats'.goal = stats.goal]_vars

\* two lines cleared in a new game, then the first level-up
C15_Witness ==
    /\ op.name = "completion_phase"
    /\ stats = [score |-> 0, lines |-> 2, level |-> 1, goal |-> 5]

\* the state of a newly constructed engine, for a load to overwrite
NewFields ==
    [current_piece |-> InitialPiece, hold_queue |-> PyNone,
     next_queue |-> NoneQueue, stats |-> InitialStats,
     game_options |-> DefaultGameOptions, grid |-> NoneGrid]

\* C16: save_game writes a record from which load_game restores exactly the
\* current_piece, hold_queue (an empty hold slot too), next_queue, stats,
\* _game_options and grid that were saved.
C16_SaveThenLoadRestoresTheGame ==
    [][op'.name = "save_game" =>
         /\ err' = "ok"
         /\ LoadFrom(saved'.lines, NewFields, 1) = [fields |-> Fields, err |-> "ok"]]_vars

\* C17: load_game on a cut-off or garbled file fails with CorruptSave and
\* leaves current_piece, hold_queue, next_queue, stats, _game_options and
\* grid as they were.
C17_DamagedFileLoadsNothing ==
    [][(op'.name = "load_game" /\ op'.dir = "damaged") =>
         /\ err' = "CorruptSave"
         /\ UNCHANGED <<current_piece, hold_queue, next_queue, stats,
                        game_options, grid>>]_vars

\* C18: _game_options.next_queue is always in 1..6, and set_game_options with
\* a next_queue outside 1..6 fails with ConfigOutOfRange and keeps the
\* options it had.
C18_QueueDepthStaysInRange ==
    [][/\ game_options'.next_queue \in 1..6
       /\ (op'.name = "set_game_options" /\ op'.rows[1] \notin 1..6) =>
            /\ err' = "ConfigOutOfRange"
            /\ game_options' = game_options]_vars

\* C14: when a spawn cell of the kind at the head of the queue is Occupied,
\* the generation step of a running game returns without an error, leaves
\* the game not running, and leaves the Occupied spawn cells as they were.
C14_BlockedSpawnEndsTheRound ==
    [][(GenerationStep /\ game_running /\ Head(next_queue) \in Kinds
          /\ ~Unobstructed(SpawnPiece(Head(next_queue)), grid)) =>
         /\ err' = "ok"
         /\ ~game_running'
         /\ \A b \in BlockSet(SpawnPiece(Head(next_queue))) :
               Occupied(Cell(grid, b)) => Cell(grid', b) = Cell(grid, b)]_vars

\* a key of the keyboard map was pressed, or the run loop ticked
KeyOrTick == op'.name \in {"perform_actions_pressed", "main_run_loop"}

GameOver == ~game_running /\ ~game_paused

HoldKey == op'.name = "perform_actions_pressed" /\ op'.dir = "hold"

HoldsAKind(hold) == hold.ty = "str" /\ hold.v \in Kinds

AwardFor(n, st) ==
    CompletionPhase(PatternMatch(FullRowsGrid(n), st).stats).score - st.score

\* C22: at any level from 1 on, clearing n = 2, 3 or 4 rows in one lock scores
\* strictly more than n locks that clear one row each.
C22_ClearingTogetherScoresMore ==
    stats.level >= 1 =>
        \A n \in 2..4 : AwardFor(n, stats) > n * AwardFor(1, stats)

IsRotation == op'.name = "move_current_piece" /\ op'.dir \in {"C", "A"}

\* C23: rotating an O piece clockwise or anti-clockwise changes neither the
\* piece (kind, facing, 4 blocks) nor any grid cell, and raises nothing.
C23_RotatingAnOPieceChangesNothing ==
    [][(IsRotation /\ current_piece.type = "O") =>
         /\ current_piece' = current_piece
         /\ grid' = grid
         /\ err' = "ok"]_vars

\* an O piece on a grid, after a clockwise rotation
C23_Witness ==
    /\ op.name = "move_current_piece"
    /\ op.dir = "C"
    /\ err = "ok"
    /\ current_piece.type = "O"
    /\ grid # NoneGrid

\* the facing after one step along N, E, S, W, N, or one step in reverse
NextFacing(facing, clockwise) ==
    IF clockwise
    THEN CASE facing = "N" -> "E" [] facing = "E" -> "S"
           [] facing = "S" -> "W" [] facing = "W" -> "N"
    ELSE CASE facing = "N" -> "W" [] facing = "W" -> "S"
           [] facing = "S" -> "E" [] facing = "E" -> "N"

\* a piece on the empty grid with two free cells around each of its blocks,
\* where every rotation is legal without a kick
FreeSpace(piece, g) ==
    /\ g = EmptyGrid
    /\ piece.type \in Kinds
    /\ piece.facing \in {"N", "E", "S", "W"}
    /\ \A i \in 1..4 : /\ Blocks(piece)[i][1] \in 2..(GridWidth - 3)
                       /\ Blocks(piece)[i][2] \in 2..(GridHeight - 3)

\* C24: a rotation of a non-O piece in free space moves the facing one step
\* along N, E, S, W, N (clockwise) or one step in reverse (anti-clockwise).
C24_RotationAdvancesTheFacing ==
    [][(IsRotation /\ FreeSpace(current_piece, grid) /\ current_piece.type # "O") =>
         current_piece'.facing = NextFacing(current_piece.facing, op'.dir = "C")]_vars

\* a rotation followed by the opposite rotation, from piece on g
RotateThenBack(piece, g, first, second) ==
    LET a == MoveCurrentPiece(g, piece, first)
    IN  IF a.err # "ok" THEN a ELSE MoveCurrentPiece(a.grid, a.piece, second)

C26_CellsHoldKindNumbers ==
    [][(op'.name = "update_grid_with_current_piece"
          /\ Playable(current_piece, grid) /\ InBounds(current_piece)) =>
         /\ err' = "ok"
         /\ \A b \in BlockSet(current_piece) :
               Cell(grid', b) = PyInt(KindNumber(current_piece.type))
         /\ \A r \in 1..Len(grid') : \A c \in 1..GridWidth :
               /\ grid'[r][c].ty = "int"
               /\ grid'[r][c].v \in {0} \cup 1..7 \cup 11..17]_vars

Ghost(cell) == cell.ty = "int" /\ cell.v \in 11..17

\* C27: the legality check does not answer False when every target of the
\* move is inside the grid and Empty or a ghost, and _pattern_match reports
\* no row that has a ghost cell in it.
C27_GhostCellsDoNotCollide ==
    [][/\ (/\ op'.name = "check_movement_possible"
           /\ Playable(current_piece, grid)
           /\ InBounds(Shift(current_piece, op'.dir))
           /\ \A b \in BlockSet(Shift(current_piece, op'.dir)) :
                 Cell(grid, b) = PyInt(0) \/ Ghost(Cell(grid, b))) =>
            (err' = "ok" /\ ret' # "False")
       /\ (op'.name = "pattern_match" /\ grid # NoneGrid) =>
            \A i \in 1..Len(op'.rows) :
                \A c \in 1..GridWidth : ~Ghost(grid[op'.rows[i] + 1][c])]_vars

\* the O piece above the two ghost cells was asked whether it can move down
C27_Witness ==
    /\ op.name = "check_movement_possible"
    /\ op.dir = "D"
    /\ err = "ok"
    /\ grid = GhostGrid
    /\ current_piece = GhostO

\* how often entry occurs in list
Count(list, entry) == Cardinality({i \in 1..Len(list) : list[i] = entry})

AscendingByScore(list) ==
    \A i \in 1..Len(list) : \A j \in 1..Len(list) :
        i < j => list[i][2] <= list[j][2]

\* the records the leaderboard holds: what read_leaderboard returns, and
\* none while there is no file yet
Stored(board) == ReadLeaderboard(board).list

\* C28: after add_to_leaderboard(initials, score) on a leaderboard that
\* reads back (or on no file yet), read_leaderboard raises nothing and
\* returns the records stored before plus the new one, each as often as
\* before, in ascending order of score.
C28_LeaderboardKeepsAndSorts ==
    [][(/\ op'.name = "add_to_leaderboard"
        /\ ReadLeaderboard(leaderboard).err \in {"ok", "FileNotFoundError"}) =>
         LET before == Stored(leaderboard)
             after == ReadLeaderboard(leaderboard')
             new == <<op'.dir, op'.rows[1]>>
         IN  /\ after.err = "ok"
             /\ AscendingByScore(after.list)
             /\ Len(after.list) = Len(before) + 1
             /\ \A i \in 1..Len(after.list) :
                   Count(after.list, after.list[i]) =
                       Count(before, after.list[i])
                       + (IF after.list[i] = new THEN 1 ELSE 0)]_vars

\* the same for a leaderboard file that begins with the header line
HeaderedLeaderboardKeepsAndSorts ==
    [][(/\ op'.name = "add_to_leaderboard"
        /\ leaderboard.lines # <<>>
        /\ Head(leaderboard.lines) = HeaderLine) =>
         LET before == Stored(leaderboard)
             after == ReadLeaderboard(leaderboard')
             new == <<op'.dir, op'.rows[1]>>
         IN  /\ after.err = "ok"
             /\ AscendingByScore(after.list)
             /\ Len(after.list) = Len(before) + 1
             /\ \A i \in 1..Len(after.list) :
                   Count(after.list, after.list[i]) =
                       Count(before, after.list[i])
                       + (IF after.list[i] = new THEN 1 ELSE 0)]_vars

\* the piece stands stamped on an otherwise empty grid
StampedAlone(piece, g) ==
    /\ Playable(piece, g)
    /\ InBounds(piece)
    /\ \A r \in 1..Len(g) : \A c \in 1..GridWidth :
          IF <<c - 1, r - 1>> \in BlockSet(piece)
          THEN g[r][c].v = KindNumber(piece.type)
          ELSE g[r][c] = PyInt(0)

\* C29: for a piece stamped on an otherwise empty grid, the legality check
\* answers True for every move that stays inside the grid: the piece's own
\* cells do not obstruct it.
C29_OwnCellsDoNotObstruct ==
    [][(/\ op'.name = "check_movement_possible"
        /\ StampedAlone(current_piece, grid)
        /\ InBounds(Shift(current_piece, op'.dir))) =>
         (err' = "ok" /\ ret' = "True")]_vars

\* C30: after a MoveLeft, MoveRight or SoftDrop of a stamped piece to a legal
\* position, the 4 cells of the new position hold the piece's kind, the
\* cells of the old position outside the new one are Empty, and every other
\* cell is unchanged.
C30_GridFollowsTheMove ==
    [][(IsMove /\ StampedAlone(current_piece, grid)
          /\ ShiftLegal(current_piece, grid, op'.dir)) =>
         LET new == BlockSet(Shift(current_piece, op'.dir))
             old == BlockSet(current_piece)
         IN  /\ err' = "ok"
             /\ \A r \in 1..Len(grid) : \A c \in 1..GridWidth :
                   LET b == <<c - 1, r - 1>>
                   IN  IF b \in new
                       THEN grid'[r][c].v = KindNumber(current_piece.type)
                       ELSE IF b \in old THEN grid'[r][c] = PyInt(0)
                       ELSE grid'[r][c] = grid[r][c]]_vars

\* C31: from the initial stats, with at most 4 lines added by the line clear
\* between two completion phases, goal > lines after every completion phase,
\* and lines, level and goal never decrease.
C31_GoalStaysAheadOfLines ==
    [][/\ op'.name = "completion_phase" => stats'.goal > stats'.lines
       /\ stats'.lines >= stats.lines
       /\ stats'.level >= stats.level
       /\ stats'.goal >= stats.goal]_vars

\* four rounds of four lines each: the third level-up
C31_Witness ==
    /\ op.name = "completion_phase"
    /\ stats = [score |-> 0, lines |-> 16, level |-> 3, goal |-> 30]

MostMoves == GridHeight - 1

C34_ClearingNoRowChangesNothing ==
    [][(\/ /\ op'.name = "pattern_match"
           /\ grid # NoneGrid
           /\ FullRows(grid) = {}
        \/ /\ op'.name = "clear_rows"
           /\ op'.rows = <<>>) =>
         /\ err' = "ok"
         /\ UNCHANGED <<grid, current_piece, next_queue, hold_queue, stats,
                        game_options, bag, flags, saved, leaderboard, screen>>]_vars

\* _pattern_match has found no full row in a grid with a stack on it
C34_Witness ==
    /\ op.name = "pattern_match"
    /\ op.rows = <<>>
    /\ err = "ok"
    /\ grid = TallGrid
    /\ FullRows(grid) = {}

\* canvas row k (0 = top) shows row 19 - k of the grid g
Shows(m, g) ==
    \A k \in 0..(MatrixHeight - 1) : \A c \in 1..GridWidth :
        LET cell == g[MatrixHeight - k][c]
        IN  HasColour(cell) /\ m[k + 1][c] = ColourOf(cell)

\* g with other contents in its generation-buffer rows 20 and 21
OtherBuffers(g) ==
    {[g EXCEPT ![GridHeight - 1] = row, ![GridHeight] = row] :
        row \in {EmptyRow, IntRow(<<1, 2, 3, 4, 5, 6, 7, 1, 2, 3>>)}}

\* the canvas shows the grid the Matrix frame holds
ShowsCurrentGrid == Shows(matrix, Reversed(current_grid))

\* C35: Matrix.update_grid on the engine's grid raises nothing and leaves
\* canvas row k (0 = top, 0..19) showing grid row 19 - k, and the same
\* canvas whatever rows 20 and 21 of the grid hold.
C35_CanvasShowsTheVisibleRows ==
    [][(op'.name = "update_grid" /\ grid # NoneGrid /\ ShowsCurrentGrid) =>
         /\ err' = "ok"
         /\ Shows(matrix', grid)
         /\ \A g \in OtherBuffers(grid) :
               UpdateGrid(current_grid, matrix, g).matrix = matrix']_vars

\* the same for a grid whose cells are the integers 0..7
IntegerGridIsShown ==
    [][(/\ op'.name = "update_grid" /\ grid # NoneGrid /\ ShowsCurrentGrid
        /\ \A r \in 1..Len(grid) : \A c \in 1..GridWidth : HasColour(grid[r][c])) =>
         /\ err' = "ok"
         /\ Shows(matrix', grid)
         /\ \A g \in OtherBuffers(grid) :
               UpdateGrid(current_grid, matrix, g).matrix = matrix']_vars

====
